---- MODULE Spec2Model ----
(***************************************************************************)
(* Virtual lab: BPSK / FSK waveform generation and demodulation.           *)
(*                                                                         *)
(* The repository holds three builds of js/app.js:                         *)
(*   "p0"  = src/unnamed/part_000  (Run + Download, parameters clamped in  *)
(*           Run only, midpoint decision)                                  *)
(*   "p1"  = src/unnamed/part_001  (Run only, no clamping)                 *)
(*   "app" = src/js/app.js         (Generate / Run / Download / Reset on a *)
(*           stored simulation `sim`, bit-rate driven grid, noise, BER)    *)
(*                                                                         *)
(* Numbers.  JavaScript doubles are modelled in fixed point:               *)
(*   - frequencies and the sample rate are integers (Hz);                  *)
(*   - a duration is an integer number of milliseconds;                    *)
(*   - an instant of a time vector is an exact rational <<num, den>> (s);  *)
(*   - a sample is an integer in units of 1/Scale, or NaN / Undef;         *)
(*   - a product of two samples is in units of 1/Scale^2.                  *)
(* Math.cos is computed on the angle rounded down to a quarter of a degree *)
(* with Bhaskara's rational approximation (exact at 0, 60, 90, 180         *)
(* degrees, absolute error below 0.007 elsewhere).                         *)
(***************************************************************************)
EXTENDS Integers, Sequences, FiniteSets, TLC

VARIABLES build, form, sim, dem, plots, res, io, fresh, call

vars == <<build, form, sim, dem, plots, res, io, fresh, call>>

-----------------------------------------------------------------------------
(* Fixed-point arithmetic on samples                                       *)

Scale == 1000

\* JavaScript NaN and undefined as sample values (outside the sample range).
NaN == 2000000000
Undef == 2000000001

IsNum(x) == x # NaN /\ x # Undef

\* a * b on doubles: NaN and undefined operands give NaN.
Mul(a, b) == IF IsNum(a) /\ IsNum(b) THEN a * b ELSE NaN

\* a + b on doubles.
Add(a, b) == IF IsNum(a) /\ IsNum(b) THEN a + b ELSE NaN

\* a > b on doubles: any comparison with NaN is false.
Gt(a, b) == IsNum(a) /\ IsNum(b) /\ a > b

\* a >= b on doubles.
Ge(a, b) == IsNum(a) /\ IsNum(b) /\ a >= b

Max(a, b) == IF a >= b THEN a ELSE b
Min(a, b) == IF a <= b THEN a ELSE b

\* Quarter-degrees of a full turn.
QTurn == 1440

\* The angle num/den turns (den > 0), reduced to [0, 1) turn and rounded down
\* to quarter-degrees.  floor(r * 1440 / den) is computed in two steps so that
\* no intermediate product leaves 32 bits.
AngleQ(num, den) ==
  LET r  == num % den
      x  == r * 40
      q1 == x \div den
      r1 == x % den
  IN  q1 * 36 + (r1 * 36) \div den

\* Scale * cos(a quarter-degrees), 0 <= a < QTurn.
CosQ(a) ==
  LET h == IF a > 720 THEN QTurn - a ELSE a
      s == IF h > 360 THEN -1 ELSE 1
      d == IF h > 360 THEN 720 - h ELSE h
  IN  s * ((Scale * (518400 - 4 * d * d)) \div (518400 + d * d))

\* Math.cos(2*pi*num/den) as a sample; a zero denominator is 0/0 or k/0,
\* whose cosine is NaN.
CosT(num, den) ==
  IF den = 0 THEN NaN
  ELSE IF den < 0 THEN CosQ(AngleQ(-num, -den))
  ELSE CosQ(AngleQ(num, den))

\* Sum of f[lo..hi] on doubles (balanced, so that the evaluation stays shallow).
RECURSIVE SumRange(_, _, _)
SumRange(f, lo, hi) ==
  IF lo > hi THEN 0
  ELSE IF lo = hi THEN f[lo]
  ELSE LET m == (lo + hi) \div 2
       IN  Add(SumRange(f, lo, m), SumRange(f, m + 1, hi))

-----------------------------------------------------------------------------
(* Utilities shared by the builds                                          *)

\* A JavaScript array read at 0-based index i: a missing element is undefined.
At(arr, i) == IF i + 1 \in DOMAIN arr THEN arr[i + 1] ELSE Undef

\* Characters a bit field may hold in the model.
Chars == {"0", "1", "x"}

IsBitChar(c) == c \in {"0", "1"}

\* str.trim().replace(/[^01]/g, ''): keep the '0' and '1' characters, in order.
StripNonBits(str) == SelectSeq(str, IsBitChar)

\* s.split('').map(x => +x)
DigitsToBits(s) == [i \in 1..Len(s) |-> IF s[i] = "1" THEN 1 ELSE 0]

\* The fallback pattern of parseBits in part_000 and part_001.
FallbackBits == <<1, 0, 1, 0>>

\* parseBits of part_000 (same function in part_001): an empty text or a text
\* with no '0'/'1' gives the fallback pattern.
parseBits_p0(str) ==
  IF str = <<>> THEN FallbackBits
  ELSE LET s == StripNonBits(str)
       IN  IF Len(s) > 0 THEN DigitsToBits(s) ELSE FallbackBits

parseBits_p1(str) ==
  IF str = <<>> THEN FallbackBits
  ELSE LET s == StripNonBits(str)
       IN  IF s = <<>> THEN FallbackBits ELSE DigitsToBits(s)

\* Faulty variant of parseBits of js/app.js: the fallback of part_000.
parseBits_app_Fallback(str) ==
  LET s == StripNonBits(str)
  IN  IF Len(s) > 0 THEN DigitsToBits(s) ELSE FallbackBits

\* parseBits of js/app.js: no fallback, an empty array instead.
parseBits_app(str) ==
  LET s == StripNonBits(str)
  IN  IF Len(s) > 0 THEN DigitsToBits(s) ELSE <<>>

\* linspace(0, b, n) of part_000 and js/app.js, b = bn/bd seconds: n <= 1 gives
\* [0]; otherwise entry i is step*i with step = b/(n-1).
linspace_p0(bn, bd, n) ==
  IF n <= 1 THEN << <<0, 1>> >>
  ELSE [k \in 1..n |-> <<bn * (k - 1), bd * (n - 1)>>]

\* linspace(0, b, n) of part_001: only n = 1 is special; n <= 0 gives [].
linspace_p1(bn, bd, n) ==
  IF n = 1 THEN << <<0, 1>> >>
  ELSE [k \in 1..n |-> <<bn * (k - 1), bd * (n - 1)>>]

\* repeatBitsToSamples: bits.length*samplesPerBit entries, bit i repeated.
repeatBitsToSamples(bits, samplesPerBit) ==
  [k \in 1..(Len(bits) * samplesPerBit) |-> bits[((k - 1) \div samplesPerBit) + 1]]

\* movingAverage(arr, win)[i], times its positive divisor min(win, i+1): the
\* running sum holds arr[max(0,i-win+1) .. i], and stays NaN once a NaN was
\* added to it.  The sign of out[i] is the sign of this sum.
movingAverage(arr, win, i) ==
  IF \E k \in 1..(i + 1) : ~IsNum(arr[k]) THEN NaN
  ELSE SumRange(arr, Max(0, i - win + 1) + 1, i + 1)

\* Math.cos(2*pi*f*t) for an instant t = <<num, den>>.
CosAt(f, t) == CosT(f * t[1], t[2])

-----------------------------------------------------------------------------
(* part_000: generators and demodulators                                   *)
(* fs is in Hz, dur in milliseconds, so that fs*duration = fs*dur/1000.    *)
(* baseband is in volts; carrier, mod in 1/Scale; products in 1/Scale^2.   *)

\* Faulty variant of genBPSK: the carrier restarts at every bit, as the FSK
\* tones do.
genBPSK_p0_PhaseReset(bits, amp, fc, fs, dur) ==
  LET N == Max(1, (fs * dur) \div 1000)
      samplesPerBit == Max(1, N \div Len(bits))
      t == linspace_p0(dur, 1000, N)
      baseband == [k \in 1..N |->
                     (IF bits[Min(Len(bits), ((k - 1) \div samplesPerBit) + 1)] = 1
                      THEN 1 ELSE -1) * amp]
      carrier == [k \in 1..N |-> CosAt(fc, t[((k - 1) % samplesPerBit) + 1])]
      mod == [k \in 1..N |-> Mul(baseband[k], carrier[k])]
  IN  [N |-> N, t |-> t, baseband |-> baseband, carrier |-> carrier,
       mod |-> mod, samplesPerBit |-> samplesPerBit]

\* BPSK, continuous carrier over the whole signal.
genBPSK_p0(bits, amp, fc, fs, dur) ==
  LET N == Max(1, (fs * dur) \div 1000)
      samplesPerBit == Max(1, N \div Len(bits))
      t == linspace_p0(dur, 1000, N)
      baseRaw == repeatBitsToSamples(bits, samplesPerBit)
      baseband == [k \in 1..N |->
                     LET b == IF At(baseRaw, k - 1) = Undef
                              THEN bits[Len(bits)] ELSE baseRaw[k]
                     IN  (IF b = 1 THEN 1 ELSE -1) * amp]
      carrier == [k \in 1..N |-> CosAt(fc, t[k])]
      mod == [k \in 1..N |-> Mul(baseband[k], carrier[k])]
  IN  [N |-> N, t |-> t, baseband |-> baseband, carrier |-> carrier,
       mod |-> mod, samplesPerBit |-> samplesPerBit]

\* The per-bit decisions of demodBPSK from the low-passed signal.
demodBPSK_p0(modSignal, fc, fs, samplesPerBit) ==
  LET N == Len(modSignal)
      t == linspace_p0(N, fs, N)
      mixed == [k \in 1..N |-> Mul(modSignal[k], CosAt(fc, t[k]))]
      numBits == N \div samplesPerBit
      val == [b \in 1..numBits |->
                LET start == (b - 1) * samplesPerBit
                    mid == Min(N - 1, start + samplesPerBit \div 2)
                IN  movingAverage(mixed, samplesPerBit, mid)]
      decisions == [b \in 1..numBits |-> IF Gt(val[b], 0) THEN 1 ELSE 0]
      recon == [k \in 1..N |->
                  IF (k - 1) \div samplesPerBit < numBits
                  THEN (IF decisions[((k - 1) \div samplesPerBit) + 1] = 1 THEN 1 ELSE -1)
                  ELSE 0]
  IN  [decisions |-> decisions, stat |-> val, recon |-> recon, numBits |-> numBits, t |-> t]

\* Faulty variant of genFSK: the tones run on the time of the whole signal
\* (local_t = i/fs).
genFSK_p0_GlobalTime(bits, amp, f0, f1, fs, dur) ==
  LET N == Max(1, (fs * dur) \div 1000)
      samplesPerBit == Max(1, N \div Len(bits))
      t == linspace_p0(dur, 1000, N)
      bitOf(i) == Min(Len(bits) - 1, i \div samplesPerBit)
      carrier == [k \in 1..N |->
                    CosT((IF bits[bitOf(k - 1) + 1] = 1 THEN f1 ELSE f0) * (k - 1), fs)]
      mod == [k \in 1..N |-> Mul(amp, carrier[k])]
      baseband == [k \in 1..N |-> IF bits[bitOf(k - 1) + 1] = 1 THEN amp ELSE -amp]
  IN  [N |-> N, t |-> t, baseband |-> baseband, carrier |-> carrier,
       mod |-> mod, samplesPerBit |-> samplesPerBit]

\* FSK, per-bit sinusoid whose phase restarts at each bit.
genFSK_p0(bits, amp, f0, f1, fs, dur) ==
  LET N == Max(1, (fs * dur) \div 1000)
      samplesPerBit == Max(1, N \div Len(bits))
      t == linspace_p0(dur, 1000, N)
      inBits == Len(bits) * samplesPerBit
      lastIdx == Min(N - 1, inBits - 1)
      \* the bit whose window holds sample i < min(N, inBits)
      bitOf(i) == i \div samplesPerBit
      val(i) == LET b == bitOf(i)
                    f == IF bits[b + 1] = 1 THEN f1 ELSE f0
                    start == b * samplesPerBit
                IN  CosT(f * (i - start), fs)          \* local_t = (i - start)/fs
      own(i) == IF i < inBits THEN i ELSE lastIdx      \* "fill leftovers"
      carrier == [k \in 1..N |-> val(own(k - 1))]
      mod == [k \in 1..N |-> Mul(amp, carrier[k])]
      baseband == [k \in 1..N |->
                     IF bits[bitOf(own(k - 1)) + 1] = 1 THEN amp ELSE -amp]
  IN  [N |-> N, t |-> t, baseband |-> baseband, carrier |-> carrier,
       mod |-> mod, samplesPerBit |-> samplesPerBit]

\* Faulty variant of demodFSK: corr1 >= corr0 decides 1, so a tie decides 1.
demodFSK_p0_TieOne(modSignal, f0, f1, fs, samplesPerBit) ==
  LET N == Len(modSignal)
      t == linspace_p0(N, fs, N)
      numBits == N \div samplesPerBit
      p0 == [k \in 1..N |-> Mul(modSignal[k], CosAt(f0, t[k]))]
      p1 == [k \in 1..N |-> Mul(modSignal[k], CosAt(f1, t[k]))]
      corr == [b \in 1..numBits |->
                 LET start == (b - 1) * samplesPerBit
                     end == Min(N, b * samplesPerBit)
                 IN  <<SumRange(p0, start + 1, end), SumRange(p1, start + 1, end)>>]
      decisions == [b \in 1..numBits |-> IF Ge(corr[b][2], corr[b][1]) THEN 1 ELSE 0]
      recon == [k \in 1..N |->
                  IF (k - 1) \div samplesPerBit < numBits
                  THEN (IF decisions[((k - 1) \div samplesPerBit) + 1] = 1 THEN 1 ELSE -1)
                  ELSE 0]
  IN  [decisions |-> decisions, stat |-> corr, recon |-> recon, numBits |-> numBits, t |-> t]

\* FSK correlation demodulator (part_000; samplesPerBit >= 1 there).
demodFSK_p0(modSignal, f0, f1, fs, samplesPerBit) ==
  LET N == Len(modSignal)
      t == linspace_p0(N, fs, N)
      numBits == N \div samplesPerBit
      p0 == [k \in 1..N |-> Mul(modSignal[k], CosAt(f0, t[k]))]
      p1 == [k \in 1..N |-> Mul(modSignal[k], CosAt(f1, t[k]))]
      corr == [b \in 1..numBits |->
                 LET start == (b - 1) * samplesPerBit
                     end == Min(N, b * samplesPerBit)
                 IN  <<SumRange(p0, start + 1, end), SumRange(p1, start + 1, end)>>]
      decisions == [b \in 1..numBits |-> IF Gt(corr[b][2], corr[b][1]) THEN 1 ELSE 0]
      recon == [k \in 1..N |->
                  IF (k - 1) \div samplesPerBit < numBits
                  THEN (IF decisions[((k - 1) \div samplesPerBit) + 1] = 1 THEN 1 ELSE -1)
                  ELSE 0]
  IN  [decisions |-> decisions, stat |-> corr, recon |-> recon, numBits |-> numBits, t |-> t]

-----------------------------------------------------------------------------
(* part_001: generators and demodulators (no lower bounds on N)            *)

\* JavaScript Infinity as a loop bound (N/0 with N > 0).
Infinity == 2000000002

\* Math.floor(N / samplesPerBit) on doubles: N/0 is Infinity for N > 0 and
\* NaN for N = 0.
FloorDiv(N, samplesPerBit) ==
  IF samplesPerBit # 0 THEN N \div samplesPerBit
  ELSE IF N > 0 THEN Infinity
  ELSE NaN

\* Number of iterations of "for (b = 0; b < numBits; b++)": none when the
\* bound is NaN (b < NaN is false), unbounded when it is Infinity.
LoopCount(numBits) == IF numBits = NaN THEN 0 ELSE numBits

\* new Array(n) throws RangeError for a negative length.
ArrayThrows(n) == n < 0

\* BPSK with an accumulated carrier phase: carrier[i] = cos(i * 2*pi*fc/fs).
genBPSK_p1(bits, amp, fc, fs, dur) ==
  LET N == (fs * dur) \div 1000
      samplesPerBit == Max(1, N \div Len(bits))
      t == linspace_p1(dur, 1000, N)
      raw == repeatBitsToSamples(bits, samplesPerBit)
      baseband == [k \in 1..Len(raw) |-> (IF raw[k] = 1 THEN 1 ELSE -1) * amp]
      carrier == [k \in 1..N |-> CosT(fc * (k - 1), fs)]
      mod == [k \in 1..N |-> Mul(At(baseband, k - 1), carrier[k])]
  IN  [N |-> N, t |-> t, baseband |-> baseband, carrier |-> carrier,
       mod |-> mod, samplesPerBit |-> samplesPerBit,
       throws |-> ArrayThrows(N)]

\* FSK: samplesPerBit is floor(N/bits.length) with no lower bound.
genFSK_p1(bits, amp, f0, f1, fs, dur) ==
  LET N == (fs * dur) \div 1000
      samplesPerBit == N \div Len(bits)
      t == linspace_p1(dur, 1000, N)
      raw == repeatBitsToSamples(bits, samplesPerBit)
      baseband == [k \in 1..Len(raw) |-> IF raw[k] = 1 THEN 1 ELSE -1]
      inBits == Len(bits) * samplesPerBit
      carrier == [k \in 1..N |->
                    IF k - 1 < inBits
                    THEN LET b == (k - 1) \div samplesPerBit
                             f == IF bits[b + 1] = 1 THEN f1 ELSE f0
                         IN  CosT(f * ((k - 1) % samplesPerBit), fs)   \* tt = k/fs
                    ELSE Undef]
      mod == [k \in 1..N |-> IF k - 1 < inBits THEN Mul(amp, carrier[k]) ELSE Undef]
  IN  [N |-> N, t |-> t, baseband |-> baseband, carrier |-> carrier,
       mod |-> mod, samplesPerBit |-> samplesPerBit,
       throws |-> ArrayThrows(Len(bits) * samplesPerBit) \/ ArrayThrows(N)]

demodBPSK_p1(modSignal, fc, fs, samplesPerBit) ==
  LET N == Len(modSignal)
      mixed == [k \in 1..N |-> Mul(modSignal[k], CosT(fc * (k - 1), fs))]
      numBits == N \div samplesPerBit
      val == [b \in 1..numBits |->
                LET start == (b - 1) * samplesPerBit
                    mid == Min(N - 1, start + samplesPerBit \div 2)
                IN  movingAverage(mixed, samplesPerBit, mid)]
      decisions == [b \in 1..numBits |-> IF Gt(val[b], 0) THEN 1 ELSE 0]
      recon == [k \in 1..N |->
                  IF (k - 1) \div samplesPerBit < numBits
                  THEN (IF decisions[((k - 1) \div samplesPerBit) + 1] = 1 THEN 1 ELSE -1)
                  ELSE 0]
  IN  [decisions |-> decisions, stat |-> val, recon |-> recon, numBits |-> numBits,
       t |-> [k \in 1..N |-> <<k - 1, fs>>]]

\* With samplesPerBit = 0 and N > 0 the loop bound is Infinity: the loop never
\* ends, and no result is returned (decisions and recon are then empty here).
demodFSK_p1(modSignal, f0, f1, fs, samplesPerBit) ==
  LET N == Len(modSignal)
      t == linspace_p1(N, fs, N)
      numBits == FloorDiv(N, samplesPerBit)
      n == IF numBits = Infinity THEN 0 ELSE LoopCount(numBits)
      p0 == [k \in 1..N |-> Mul(modSignal[k], CosAt(f0, t[k]))]
      p1 == [k \in 1..N |-> Mul(modSignal[k], CosAt(f1, t[k]))]
      corr == [b \in 1..n |->
                 LET start == (b - 1) * samplesPerBit
                     end == Min(N, b * samplesPerBit)
                 IN  <<SumRange(p0, start + 1, end), SumRange(p1, start + 1, end)>>]
      decisions == [b \in 1..n |-> IF Gt(corr[b][2], corr[b][1]) THEN 1 ELSE 0]
      recon == [k \in 1..N |->
                  IF n > 0 /\ (k - 1) \div samplesPerBit < n
                  THEN (IF decisions[((k - 1) \div samplesPerBit) + 1] = 1 THEN 1 ELSE -1)
                  ELSE 0]
  IN  [decisions |-> decisions, stat |-> corr, recon |-> recon, numBits |-> numBits, t |-> t]

-----------------------------------------------------------------------------
(* js/app.js: generator on the form, noise, demodulators, bit error rate   *)

\* Largest SNR (dB) at which a Box-Muller draw can still reach twice the
\* signal amplitude: |randn| < 8.6 and sigma = rms / 10^(snr/20), so a noise
\* sample of -2*mod[i] needs 10^(snr/20) <= 3.
SnrFlipMax == 9

\* The draws of randn() are modelled by a finite family of noise vectors:
\* choice 0 is "every draw is (nearly) 0"; choice b in 1..numBits is "the
\* draws over bit b's window are -2*mod[i]/sigma", which inverts that window.
\* The second kind needs sigma large enough, that is snr <= SnrFlipMax.
NoiseChoices(numBits, snr) ==
  {0} \cup (IF IsNum(snr) /\ snr <= SnrFlipMax THEN 1..numBits ELSE {})

\* typeof x === 'number' && isFinite(x)
IsFinite(x) == IsNum(x) /\ x # Infinity

\* Faulty variant of addNoise: no guard on snrDB.  An undefined or NaN snrDB
\* makes sigma NaN and every sample NaN.
addNoise_NoGuard(signal, snrDB, samplesPerBit, nz) ==
  IF ~IsNum(snrDB) THEN [k \in 1..Len(signal) |-> NaN]
  ELSE [k \in 1..Len(signal) |->
          IF nz > 0 /\ (k - 1) \div samplesPerBit = nz - 1
          THEN Add(signal[k], Mul(-2, signal[k]))
          ELSE signal[k]]

\* addNoise(signal, snrDB) under noise choice nz: a copy when snrDB is not a
\* finite number, else signal[i] + randn()*sigma.
addNoise(signal, snrDB, samplesPerBit, nz) ==
  IF ~IsFinite(snrDB) THEN signal
  ELSE [k \in 1..Len(signal) |->
          IF nz > 0 /\ (k - 1) \div samplesPerBit = nz - 1
          THEN Add(signal[k], Mul(-2, signal[k]))
          ELSE signal[k]]

\* The caller's array after addNoise(signal, snrDB) has returned: slice() and
\* map() build new arrays and no statement of addNoise writes signal[i].
addNoise_Input(signal, snrDB) == signal

\* Number(field) || dflt
OrDefault(v, dflt) == IF v = 0 THEN dflt ELSE v

\* The grid and arrays genSignalsFromForm builds from the form fields (bits
\* already parsed and non-empty): duration = numBits/bitRate,
\* samplesPerBit = max(4, floor(fs/bitRate)), N = samplesPerBit*numBits.
genSignalsFromForm(f, bits, nz) ==
  LET bitRate == Max(1, OrDefault(f.bitRate, 1))
      amp == OrDefault(f.amp, 1)
      fs == Max(100, OrDefault(f.fs, 8000))
      snr == f.snr
      numBits == Len(bits)
      samplesPerBit == Max(4, fs \div bitRate)
      N == samplesPerBit * numBits
      t == linspace_p0(numBits, bitRate, N)
      baseband == [k \in 1..N |->
                     (IF bits[((k - 1) \div samplesPerBit) + 1] = 1 THEN 1 ELSE -1) * amp]
      fc == OrDefault(f.fc, 1000)
      f0 == OrDefault(f.f0, 600)
      f1 == OrDefault(f.f1, 1200)
      bpskCarrier == [k \in 1..N |-> Mul(amp, CosAt(fc, t[k]))]
      bpskMod == [k \in 1..N |-> Mul(baseband[k], CosAt(fc, t[k]))]
      fskVal == [k \in 1..N |->
                   LET b == (k - 1) \div samplesPerBit
                       fr == IF bits[b + 1] = 1 THEN f1 ELSE f0
                   IN  Mul(amp, CosT(fr * ((k - 1) - b * samplesPerBit), fs))]
      mod == IF f.ex = "bpsk" THEN bpskMod ELSE fskVal
  IN  [ex |-> f.ex, bits |-> bits, t |-> t, N |-> N,
       samplesPerBit |-> samplesPerBit, baseband |-> baseband,
       carrier |-> IF f.ex = "bpsk" THEN bpskCarrier ELSE fskVal,
       mod |-> addNoise(mod, snr, samplesPerBit, nz),
       fc |-> IF f.ex = "bpsk" THEN fc ELSE 0,
       f0 |-> IF f.ex = "bpsk" THEN 0 ELSE f0,
       f1 |-> IF f.ex = "bpsk" THEN 0 ELSE f1,
       amp |-> amp, bitRate |-> bitRate, fs |-> fs, dur |-> 0, snr |-> snr]

\* Faulty variant of demodBPSK: avgVal > 0 decides 1, as in part_000.
demodBPSK_app_Strict(modSignal, fc, fs, samplesPerBit) ==
  LET N == Len(modSignal)
      t == linspace_p0(N, fs, N)
      mixed == [k \in 1..N |-> Mul(modSignal[k], CosAt(fc, t[k]))]
      numBits == N \div samplesPerBit
      avgVal == [b \in 1..numBits |->
                   LET start == (b - 1) * samplesPerBit
                       end == start + samplesPerBit
                   IN  SumRange(mixed, start + 1, end)]
      decisions == [b \in 1..numBits |-> IF Gt(avgVal[b], 0) THEN 1 ELSE 0]
      recon == [k \in 1..N |->
                  IF (k - 1) \div samplesPerBit < numBits
                  THEN (IF decisions[((k - 1) \div samplesPerBit) + 1] = 1 THEN 1 ELSE -1)
                  ELSE Undef]
  IN  [decisions |-> decisions, stat |-> avgVal, recon |-> recon, numBits |-> numBits, t |-> t]

\* avg(mixed.slice(start, end)) >= 0 decides 1; the average has the sign of
\* the sum.
demodBPSK_app(modSignal, fc, fs, samplesPerBit) ==
  LET N == Len(modSignal)
      t == linspace_p0(N, fs, N)
      mixed == [k \in 1..N |-> Mul(modSignal[k], CosAt(fc, t[k]))]
      numBits == N \div samplesPerBit
      avgVal == [b \in 1..numBits |->
                   LET start == (b - 1) * samplesPerBit
                       end == start + samplesPerBit
                   IN  SumRange(mixed, start + 1, end)]
      decisions == [b \in 1..numBits |-> IF Ge(avgVal[b], 0) THEN 1 ELSE 0]
      recon == [k \in 1..N |->
                  IF (k - 1) \div samplesPerBit < numBits
                  THEN (IF decisions[((k - 1) \div samplesPerBit) + 1] = 1 THEN 1 ELSE -1)
                  ELSE Undef]
  IN  [decisions |-> decisions, stat |-> avgVal, recon |-> recon, numBits |-> numBits, t |-> t]

demodFSK_app(modSignal, f0, f1, fs, samplesPerBit) ==
  LET N == Len(modSignal)
      t == linspace_p0(N, fs, N)
      numBits == N \div samplesPerBit
      p0 == [k \in 1..N |-> Mul(modSignal[k], CosAt(f0, t[k]))]
      p1 == [k \in 1..N |-> Mul(modSignal[k], CosAt(f1, t[k]))]
      corr == [b \in 1..numBits |->
                 LET start == (b - 1) * samplesPerBit
                     end == start + samplesPerBit
                 IN  <<SumRange(p0, start + 1, end), SumRange(p1, start + 1, end)>>]
      decisions == [b \in 1..numBits |-> IF Gt(corr[b][2], corr[b][1]) THEN 1 ELSE 0]
      recon == [k \in 1..N |->
                  IF (k - 1) \div samplesPerBit < numBits
                  THEN (IF decisions[((k - 1) \div samplesPerBit) + 1] = 1 THEN 1 ELSE -1)
                  ELSE Undef]
  IN  [decisions |-> decisions, stat |-> corr, recon |-> recon, numBits |-> numBits, t |-> t]

\* bits.join('') / decisions.join(''): one character per bit.
JoinBits(bits) == [i \in 1..Len(bits) |-> IF bits[i] = 1 THEN "1" ELSE "0"]

\* A character of a string at 0-based index i, or undefined past its end.
CharAt(str, i) == IF i + 1 \in DOMAIN str THEN str[i + 1] ELSE "undefined"

\* Faulty variant of the error count: == for !=, the positions that agree.
BitErrors_Agreeing(input, decisions) ==
  Cardinality({i \in 0..(Len(input) - 1) : input[i + 1] = CharAt(decisions, i)})

\* The error count of the Run handler: positions i < input.length with
\* input[i] != decisions[i].
BitErrors(input, decisions) ==
  Cardinality({i \in 0..(Len(input) - 1) : input[i + 1] # CharAt(decisions, i)})

\* (errors / n).toFixed(4), as the integer number of ten-thousandths.
ToFixed4(errors, n) == (2 * errors * 10000 + n) \div (2 * n)

\* The text shown in resBER by the Run handler.
BerText(input, decisions) ==
  [dash |-> FALSE, e4 |-> ToFixed4(BitErrors(input, decisions), Len(input))]

-----------------------------------------------------------------------------
(* The form: the controls renderControls creates                           *)
(* A number field holds an integer; an empty or non-numeric number field   *)
(* reads as 0 (Number('') = 0).  A control a build or an experiment does   *)
(* not have is 0.  dur is in milliseconds.                                 *)

Builds == {"p0", "p1", "app"}

MkForm(ex, bits, amp, fs, dur, bitRate, snr, fc, f0, f1) ==
  [ex |-> ex, bits |-> bits, amp |-> amp, fs |-> fs, dur |-> dur,
   bitRate |-> bitRate, snr |-> snr, fc |-> fc, f0 |-> f0, f1 |-> f1]

\* The values renderControls / showBPSKControls / showFSKControls write.
DefaultBits_p0 == <<"1", "0", "1", "0", "1", "1">>
DefaultBits_app == <<"1", "0", "1", "0", "1", "1", "0", "0">>

Defaults(b, ex) ==
  IF b = "app"
  THEN IF ex = "bpsk"
       THEN MkForm(ex, DefaultBits_app, 1, 8000, 0, 80, 30, 1200, 0, 0)
       ELSE MkForm(ex, DefaultBits_app, 1, 8000, 0, 80, 30, 0, 800, 1200)
  ELSE IF ex = "bpsk"
       THEN MkForm(ex, DefaultBits_p0, 1, 10000, 100, 0, 0, 10, 0, 0)
       ELSE MkForm(ex, DefaultBits_p0, 1, 10000, 100, 0, 0, 0, 8, 12)

\* Longest bit text enumerated exhaustively.
MaxBits == 2

\* Bit texts: every 0/1 text up to MaxBits characters (the empty text too),
\* texts with a character that is no bit, and a few longer ones.
BitTexts ==
  UNION {[1..n -> {"0", "1"}] : n \in 0..MaxBits}
    \cup {<<"x">>, <<"1", "x", "0">>, <<"1", "0", "1">>, <<"1", "0", "1", "0">>}

\* (fs, dur) pairs of part_000 / part_001 forms: regular grids, a grid whose
\* fs*duration is no whole number, grids with fewer samples than bits, and
\* zero or negative entries.
Grids == {<<100, 160>>, <<100, 100>>, <<100, 165>>, <<100, 20>>, <<100, 2>>,
          <<0, 160>>, <<100, 0>>, <<-100, 160>>}

Carriers == {10, 2}
TonePairs == {<<8, 12>>, <<10, 10>>}

\* (fs, bitRate, snr) triples of js/app.js forms.
AppGrids == {<<100, 10, 30>>, <<100, 12, 0>>, <<50, 25, 30>>, <<0, 1000, 30>>}
AppCarriers == {1200, 10}
AppTonePairs == {<<800, 1200>>, <<10, 10>>}

\* The example of the no-noise round trip: bits 10110, fc = 10, fs = 10000,
\* duration 0.1 s.
ExampleBits == <<"1", "0", "1", "1", "0">>

\* The text and amplitude of the forms that vary the amplitude.
AmpBits == <<"1", "0">>
OtherAmp == 2

\* The forms the pipeline is exercised on: every bit text on every grid and
\* frequency at amplitude 1, one text at another amplitude, the default
\* forms, and the round-trip example.
PipeForms(b) ==
  IF b = "app"
  THEN {MkForm("bpsk", x, 1, g[1], 0, g[2], g[3], c, 0, 0) :
          x \in BitTexts, g \in AppGrids, c \in AppCarriers}
       \cup {MkForm("fsk", x, 1, g[1], 0, g[2], g[3], 0, p[1], p[2]) :
          x \in BitTexts, g \in AppGrids, p \in AppTonePairs}
       \cup {MkForm("bpsk", AmpBits, OtherAmp, g[1], 0, g[2], g[3], c, 0, 0) :
          g \in AppGrids, c \in AppCarriers}
       \cup {MkForm("fsk", AmpBits, OtherAmp, g[1], 0, g[2], g[3], 0, p[1], p[2]) :
          g \in AppGrids, p \in AppTonePairs}
       \cup {Defaults(b, "bpsk"), Defaults(b, "fsk")}
  ELSE {MkForm("bpsk", x, 1, g[1], g[2], 0, 0, c, 0, 0) :
          x \in BitTexts, g \in Grids, c \in Carriers}
       \cup {MkForm("fsk", x, 1, g[1], g[2], 0, 0, 0, p[1], p[2]) :
          x \in BitTexts, g \in Grids, p \in TonePairs}
       \cup {MkForm("bpsk", AmpBits, OtherAmp, g[1], g[2], 0, 0, c, 0, 0) :
          g \in Grids, c \in Carriers}
       \cup {MkForm("fsk", AmpBits, OtherAmp, g[1], g[2], 0, 0, 0, p[1], p[2]) :
          g \in Grids, p \in TonePairs}
       \cup {Defaults(b, "bpsk"), Defaults(b, "fsk"),
             [Defaults(b, "bpsk") EXCEPT !.bits = ExampleBits]}

\* The forms a user of the page moves between in the event model.
UIForms(b, ex) ==
  IF b = "app"
  THEN {Defaults(b, ex),
        [Defaults(b, ex) EXCEPT !.bits = <<"1", "0">>, !.fs = 100, !.bitRate = 12, !.snr = 0],
        [Defaults(b, ex) EXCEPT !.bits = <<"x">>, !.fs = 100, !.bitRate = 25]}
  ELSE {Defaults(b, ex),
        [Defaults(b, ex) EXCEPT !.bits = <<"1", "0">>, !.fs = 100, !.dur = 160],
        [Defaults(b, ex) EXCEPT !.bits = <<"x">>, !.fs = 0, !.dur = 20]}

\* Texts the random-bits button may write (8 or more random 0/1 characters).
RandomTexts == {<<"1", "1", "0", "0", "1", "0", "1", "0">>}

-----------------------------------------------------------------------------
(* State                                                                   *)
(*   build  the build of js/app.js the page runs                           *)
(*   form   the controls                                                   *)
(*   sim    js/app.js: the global `sim`.  part_000/part_001: the generator *)
(*          result the last Run received, with the arguments of the call   *)
(*   dem    the result of the last demodulator call, with the statistic    *)
(*          each decision was taken on (its loop bound alone when the loop *)
(*          never ends); none once js/app.js purged the plot               *)
(*   plots  the traces drawn: input, carrier, modulated, demodulated       *)
(*   res    js/app.js: resInput, resDemod, resBER, resExtra                *)
(*   io     what the last event did besides: the event, the bits parsed,   *)
(*          the (fs, dur) the generator was called with, the alert shown,  *)
(*          the CSV downloaded, an exception or a loop that never ends     *)
(*   fresh  history: no generator result was stored since the page loaded  *)
(*          or was last reset                                              *)
(*   call   a direct call of addNoise or demodBPSK: its arguments and what  *)
(*          it returned (its per-bit statistic included)                   *)

NoSim ==
  [ex |-> "none", bits |-> <<>>, t |-> <<>>, N |-> 0, samplesPerBit |-> 0,
   baseband |-> <<>>, carrier |-> <<>>, mod |-> <<>>, fc |-> 0, f0 |-> 0,
   f1 |-> 0, amp |-> 0, bitRate |-> 0, fs |-> 0, dur |-> 0, snr |-> 0]

\* !sim.t
SimEmpty(s) == s.ex = "none"

\* The record of a part_000 / part_001 generator call and its result.
SimOf(g, ex, bits, amp, fc, f0, f1, fs, dur) ==
  [ex |-> ex, bits |-> bits, t |-> g.t, N |-> g.N,
   samplesPerBit |-> g.samplesPerBit, baseband |-> g.baseband,
   carrier |-> g.carrier, mod |-> g.mod, fc |-> fc, f0 |-> f0, f1 |-> f1,
   amp |-> amp, bitRate |-> 0, fs |-> fs, dur |-> dur, snr |-> 0]

NoDem ==
  [has |-> FALSE, decisions |-> <<>>, stat |-> <<>>, recon |-> <<>>,
   numBits |-> 0, t |-> <<>>]

DemOf(d) ==
  [has |-> TRUE, decisions |-> d.decisions, stat |-> d.stat, recon |-> d.recon,
   numBits |-> d.numBits, t |-> d.t]

NoTrace == [shown |-> FALSE, y |-> <<>>]
Trace(y) == [shown |-> TRUE, y |-> y]
NoPlots == [input |-> NoTrace, carrier |-> NoTrace, mod |-> NoTrace, demod |-> NoTrace]

Dash == <<"-">>
NoBer == [dash |-> TRUE, e4 |-> 0]
NoRes == [input |-> Dash, demod |-> Dash, ber |-> NoBer, extra |-> <<>>]

NoCsv == <<>>

Io(ev, bits, gen, alert, csv, fault) ==
  [ev |-> ev, bits |-> bits, gen |-> gen, alert |-> alert, csv |-> csv, fault |-> fault]

NoIo == Io("load", <<>>, <<>>, "", NoCsv, "none")

\* The page answers events unless a handler is still running.
Alive == io.fault # "hang"

TypeOK ==
  /\ build \in Builds
  /\ form.ex \in {"bpsk", "fsk"}
  /\ sim.ex \in {"none", "bpsk", "fsk"}
  /\ dem.has \in BOOLEAN
  /\ io.fault \in {"none", "RangeError", "hang"}

-----------------------------------------------------------------------------
(* part_000: Run and Download                                              *)

\* btnRun of part_000: parameters are clamped, then generate, demodulate, plot.
P0Run ==
  /\ build = "p0" /\ Alive
  /\ LET ex == form.ex
         amp == OrDefault(form.amp, 1)
         fs == Max(100, OrDefault(form.fs, 1000))
         dur == Max(1, OrDefault(form.dur, 100))
         bits == parseBits_p0(form.bits)
         fc == OrDefault(form.fc, 10)
         f0 == OrDefault(form.f0, 8)
         f1 == OrDefault(form.f1, 12)
         g == IF ex = "bpsk" THEN genBPSK_p0(bits, amp, fc, fs, dur)
              ELSE genFSK_p0(bits, amp, f0, f1, fs, dur)
         d == IF ex = "bpsk" THEN demodBPSK_p0(g.mod, fc, fs, g.samplesPerBit)
              ELSE demodFSK_p0(g.mod, f0, f1, fs, g.samplesPerBit)
     IN  /\ sim' = IF ex = "bpsk" THEN SimOf(g, ex, bits, amp, fc, 0, 0, fs, dur)
                   ELSE SimOf(g, ex, bits, amp, 0, f0, f1, fs, dur)
         /\ dem' = DemOf(d)
         /\ plots' = [input |-> Trace(g.baseband), carrier |-> Trace(g.carrier),
                      mod |-> Trace(g.mod), demod |-> Trace(d.recon)]
         /\ io' = Io("Run", bits, <<fs, dur>>, "", NoCsv, "none")
  /\ fresh' = FALSE
  /\ UNCHANGED <<call, build, form, res>>

\* btnDownload of part_000: regenerates from the raw fields and exports.
P0Download ==
  /\ build = "p0" /\ Alive
  /\ LET ex == form.ex
         amp == form.amp
         fs == form.fs
         dur == form.dur
         bits == parseBits_p0(form.bits)
         g == IF ex = "bpsk" THEN genBPSK_p0(bits, amp, form.fc, fs, dur)
              ELSE genFSK_p0(bits, amp, form.f0, form.f1, fs, dur)
     IN  io' = Io("Download", bits, <<fs, dur>>, "",
                  <<g.t, g.baseband, g.carrier, g.mod>>, "none")
  /\ UNCHANGED <<call, build, form, sim, dem, plots, res, fresh>>

-----------------------------------------------------------------------------
(* part_001: Run                                                           *)

\* btnRun of part_001: the raw fields go to the generator.  A negative array
\* length throws out of the handler; an unbounded demodulator loop never
\* returns.  Nothing is plotted in either case.
P1Run ==
  /\ build = "p1" /\ Alive
  /\ LET ex == form.ex
         amp == form.amp
         fs == form.fs
         dur == form.dur
         bits == parseBits_p1(form.bits)
         g == IF ex = "bpsk" THEN genBPSK_p1(bits, amp, form.fc, fs, dur)
              ELSE genFSK_p1(bits, amp, form.f0, form.f1, fs, dur)
         d == IF ex = "bpsk" THEN demodBPSK_p1(g.mod, form.fc, fs, g.samplesPerBit)
              ELSE demodFSK_p1(g.mod, form.f0, form.f1, fs, g.samplesPerBit)
     IN  IF g.throws
         THEN /\ io' = Io("Run", bits, <<fs, dur>>, "", NoCsv, "RangeError")
              /\ UNCHANGED <<sim, dem, plots, fresh>>
         ELSE IF d.numBits = Infinity
         THEN /\ io' = Io("Run", bits, <<fs, dur>>, "", NoCsv, "hang")
              /\ sim' = SimOf(g, ex, bits, amp, form.fc, form.f0, form.f1, fs, dur)
              /\ dem' = DemOf(d)
              /\ fresh' = FALSE
              /\ UNCHANGED plots
         ELSE /\ io' = Io("Run", bits, <<fs, dur>>, "", NoCsv, "none")
              /\ sim' = SimOf(g, ex, bits, amp, form.fc, form.f0, form.f1, fs, dur)
              /\ dem' = DemOf(d)
              /\ plots' = [input |-> Trace(g.baseband), carrier |-> Trace(g.carrier),
                           mod |-> Trace(g.mod), demod |-> Trace(d.recon)]
              /\ fresh' = FALSE
  /\ UNCHANGED <<call, build, form, res>>

-----------------------------------------------------------------------------
(* js/app.js: Generate, Run, Download, Reset                               *)

\* The duration numBits/bitRate in whole milliseconds.
AppDurMs(s) == (1000 * Len(s.bits)) \div s.bitRate

\* Faulty variant of btnGenerate on a rejected bit field: the null result is
\* stored and the page is cleared.
AppGenerateRejected_Clears ==
  /\ build = "app" /\ Alive
  /\ parseBits_app(form.bits) = <<>>
  /\ io' = Io("Generate", <<>>, <<>>, "Enter binary bits (0/1)", NoCsv, "none")
  /\ sim' = NoSim /\ dem' = NoDem /\ plots' = NoPlots /\ res' = NoRes
  /\ UNCHANGED <<call, build, form, fresh>>

\* btnGenerate with a bit field that parses to no bit: alert, nothing else.
AppGenerateRejected ==
  /\ build = "app" /\ Alive
  /\ parseBits_app(form.bits) = <<>>
  /\ io' = Io("Generate", <<>>, <<>>, "Enter binary bits (0/1)", NoCsv, "none")
  /\ UNCHANGED <<call, build, form, sim, dem, plots, res, fresh>>

\* Faulty variant of btnGenerate: resDemod, resBER and resExtra are left as
\* they were.
AppGenerate_KeepsResults ==
  /\ build = "app" /\ Alive
  /\ LET bits == parseBits_app(form.bits)
     IN  /\ bits # <<>>
         /\ \E nz \in NoiseChoices(Len(bits), form.snr) :
              LET out == genSignalsFromForm(form, bits, nz)
              IN  /\ sim' = out
                  /\ plots' = [input |-> Trace(out.baseband),
                               carrier |-> Trace(out.carrier),
                               mod |-> Trace(out.mod), demod |-> NoTrace]
                  /\ res' = [res EXCEPT !.input = JoinBits(out.bits)]
                  /\ io' = Io("Generate", bits, <<out.fs, AppDurMs(out)>>, "",
                              NoCsv, "none")
         /\ dem' = NoDem
         /\ fresh' = FALSE
  /\ UNCHANGED <<call, build, form>>

\* btnGenerate: sim = genSignalsFromForm(); plot input, carrier, modulated;
\* purge the demodulated plot; reset the result texts.
AppGenerate ==
  /\ build = "app" /\ Alive
  /\ LET bits == parseBits_app(form.bits)
     IN  /\ bits # <<>>
         /\ \E nz \in NoiseChoices(Len(bits), form.snr) :
              LET out == genSignalsFromForm(form, bits, nz)
              IN  /\ sim' = out
                  /\ plots' = [input |-> Trace(out.baseband),
                               carrier |-> Trace(out.carrier),
                               mod |-> Trace(out.mod), demod |-> NoTrace]
                  /\ res' = [input |-> JoinBits(out.bits), demod |-> Dash,
                             ber |-> NoBer, extra |-> <<>>]
                  /\ io' = Io("Generate", bits, <<out.fs, AppDurMs(out)>>, "",
                              NoCsv, "none")
         /\ dem' = NoDem
         /\ fresh' = FALSE
  /\ UNCHANGED <<call, build, form>>

\* btnRun with no simulation stored.
AppRunRejected ==
  /\ build = "app" /\ Alive
  /\ SimEmpty(sim)
  /\ io' = Io("Run", <<>>, <<>>, "Generate first", NoCsv, "none")
  /\ UNCHANGED <<call, build, form, sim, dem, plots, res, fresh>>

\* Faulty variant of btnRun: the scheme and the frequencies are read again
\* from the selector and the fields.
AppRun_FromForm ==
  /\ build = "app" /\ Alive
  /\ ~SimEmpty(sim)
  /\ LET fs == Max(100, OrDefault(form.fs, 8000))
         d == IF form.ex = "bpsk"
              THEN demodBPSK_app(sim.mod, OrDefault(form.fc, 1000), fs,
                                 sim.samplesPerBit)
              ELSE demodFSK_app(sim.mod, OrDefault(form.f0, 600),
                                OrDefault(form.f1, 1200), fs, sim.samplesPerBit)
         decisions == JoinBits(d.decisions)
         input == JoinBits(sim.bits)
     IN  /\ dem' = DemOf(d)
         /\ plots' = [plots EXCEPT !.demod = Trace(d.recon)]
         /\ res' = [res EXCEPT !.demod = decisions,
                               !.ber = BerText(input, decisions),
                               !.extra = IF sim.ex = "bpsk" THEN <<sim.fc, sim.fs>>
                                         ELSE <<sim.f0, sim.f1, sim.fs>>]
         /\ io' = Io("Run", <<>>, <<>>, "", NoCsv, "none")
  /\ UNCHANGED <<call, build, form, sim, fresh>>

\* btnRun: demodulate sim.mod with the parameters stored in sim, plot, show
\* the decisions and the bit error rate.
AppRun ==
  /\ build = "app" /\ Alive
  /\ ~SimEmpty(sim)
  /\ LET d == IF sim.ex = "bpsk"
              THEN demodBPSK_app(sim.mod, sim.fc, sim.fs, sim.samplesPerBit)
              ELSE demodFSK_app(sim.mod, sim.f0, sim.f1, sim.fs, sim.samplesPerBit)
         decisions == JoinBits(d.decisions)
         input == JoinBits(sim.bits)
     IN  /\ dem' = DemOf(d)
         /\ plots' = [plots EXCEPT !.demod = Trace(d.recon)]
         /\ res' = [res EXCEPT !.demod = decisions,
                               !.ber = BerText(input, decisions),
                               !.extra = IF sim.ex = "bpsk" THEN <<sim.fc, sim.fs>>
                                         ELSE <<sim.f0, sim.f1, sim.fs>>]
         /\ io' = Io("Run", <<>>, <<>>, "", NoCsv, "none")
  /\ UNCHANGED <<call, build, form, sim, fresh>>

\* btnDownload with no simulation stored.
AppDownloadRejected ==
  /\ build = "app" /\ Alive
  /\ SimEmpty(sim)
  /\ io' = Io("Download", <<>>, <<>>, "Generate first", NoCsv, "none")
  /\ UNCHANGED <<call, build, form, sim, dem, plots, res, fresh>>

\* btnDownload: the rows of sim as CSV.
AppDownload ==
  /\ build = "app" /\ Alive
  /\ ~SimEmpty(sim)
  /\ io' = Io("Download", <<>>, <<>>, "",
              <<sim.t, sim.baseband, sim.carrier, sim.mod>>, "none")
  /\ UNCHANGED <<call, build, form, sim, dem, plots, res, fresh>>

\* Faulty variant of btnReset: the global sim is left alone.
AppReset_KeepsSim ==
  /\ build = "app" /\ Alive
  /\ dem' = NoDem
  /\ plots' = NoPlots
  /\ res' = NoRes
  /\ io' = Io("Reset", <<>>, <<>>, "", NoCsv, "none")
  /\ fresh' = TRUE
  /\ UNCHANGED <<call, build, form, sim>>

\* btnReset: sim = {}, every plot purged, every result text '-'.
AppReset ==
  /\ build = "app" /\ Alive
  /\ sim' = NoSim
  /\ dem' = NoDem
  /\ plots' = NoPlots
  /\ res' = NoRes
  /\ io' = Io("Reset", <<>>, <<>>, "", NoCsv, "none")
  /\ fresh' = TRUE
  /\ UNCHANGED <<call, build, form>>

-----------------------------------------------------------------------------
(* Events on the controls                                                  *)

\* experimentSelect change: renderControls rebuilds the controls with their
\* default values for the selected experiment.
ChangeExperiment ==
  /\ Alive
  /\ form' = Defaults(build, IF form.ex = "bpsk" THEN "fsk" ELSE "bpsk")
  /\ io' = Io("Change", <<>>, <<>>, "", NoCsv, io.fault)
  /\ UNCHANGED <<call, build, sim, dem, plots, res, fresh>>

\* The user edits fields between two clicks.
EditForm ==
  /\ Alive
  /\ \E f \in UIForms(build, form.ex) :
       /\ f # form
       /\ form' = f
  /\ io' = Io("Edit", <<>>, <<>>, "", NoCsv, io.fault)
  /\ UNCHANGED <<call, build, sim, dem, plots, res, fresh>>

\* btnRandomBits / btnRandom: a random bit text replaces the bit field.
RandomBits ==
  /\ Alive
  /\ \E r \in RandomTexts :
       /\ r # form.bits
       /\ form' = [form EXCEPT !.bits = r]
  /\ io' = Io("Random", <<>>, <<>>, "", NoCsv, io.fault)
  /\ UNCHANGED <<call, build, sim, dem, plots, res, fresh>>

-----------------------------------------------------------------------------
(* The pure functions called directly, on arrays of the caller's choice    *)

\* No direct call was made.  A direct call is made on the loaded page, once:
\* its result depends on its arguments only.
NoCall == [fn |-> "none"]

\* Longest array passed to a direct call.
MaxSamples == 4

SampleValues == {-Scale, 0, Scale}

\* The arrays passed to a direct call.
Signals == UNION {[1..n -> SampleValues] : n \in 1..MaxSamples}

\* The snrDB arguments of a direct call: absent, NaN, Infinity, 0 dB, 30 dB.
SnrArgs == {Undef, NaN, Infinity, 0, 30}

CallFreqs == {1, 25}
CallRates == {100}
CallWindows == {1, 2}

\* demodBPSK of each build.
demodBPSK(b, modSignal, fc, fs, samplesPerBit) ==
  CASE b = "p0" -> demodBPSK_p0(modSignal, fc, fs, samplesPerBit)
    [] b = "p1" -> demodBPSK_p1(modSignal, fc, fs, samplesPerBit)
    [] b = "app" -> demodBPSK_app(modSignal, fc, fs, samplesPerBit)

\* addNoise(signal, snrDB) of js/app.js, one bit per sample for the noise
\* choice.
CallAddNoise ==
  /\ build = "app" /\ call = NoCall
  /\ \E signal \in Signals, snrDB \in SnrArgs :
       \E nz \in NoiseChoices(Len(signal), snrDB) :
         call' = [fn |-> "addNoise", signal |-> signal, snrDB |-> snrDB,
                  out |-> addNoise(signal, snrDB, 1, nz),
                  after |-> addNoise_Input(signal, snrDB)]
  /\ UNCHANGED <<build, form, sim, dem, plots, res, io, fresh>>

\* demodBPSK(modSignal, fc, fs, samplesPerBit) of the build.
CallDemodBPSK ==
  /\ call = NoCall
  /\ \E modSignal \in Signals, fc \in CallFreqs, fs \in CallRates,
        samplesPerBit \in CallWindows :
       call' = [fn |-> "demodBPSK", modSignal |-> modSignal, fc |-> fc,
                fs |-> fs, samplesPerBit |-> samplesPerBit,
                out |-> demodBPSK(build, modSignal, fc, fs, samplesPerBit)]
  /\ UNCHANGED <<build, form, sim, dem, plots, res, io, fresh>>

-----------------------------------------------------------------------------
(* Specifications                                                          *)

Pristine ==
  /\ sim = NoSim
  /\ dem = NoDem
  /\ plots = NoPlots
  /\ res = NoRes
  /\ io = NoIo
  /\ fresh = TRUE
  /\ call = NoCall

\* The page after load, before any event (the first Run or Generate, fired by
\* a timer of the load handler, is an event like any other).
Init ==
  /\ build \in Builds
  /\ form \in {Defaults(build, "bpsk"), Defaults(build, "fsk")}
  /\ Pristine

Handlers ==
  \/ P0Run
  \/ P0Download
  \/ P1Run
  \/ AppGenerateRejected
  \/ AppGenerate
  \/ AppRunRejected
  \/ AppRun
  \/ AppDownloadRejected
  \/ AppDownload
  \/ AppReset

Next ==
  \/ Handlers
  \/ ChangeExperiment
  \/ EditForm
  \/ RandomBits

\* Any of the three pages, with its form edited between the clicks.
PageSpec == Init /\ [][Next]_vars

\* The page of js/app.js: its click handlers in any order, with the
\* experiment selector and the form fields changed in between.
AppInit ==
  /\ build = "app"
  /\ form \in {Defaults("app", "bpsk"), Defaults("app", "fsk")}
  /\ Pristine

AppNext ==
  \/ AppGenerateRejected
  \/ AppGenerate
  \/ AppRunRejected
  \/ AppRun
  \/ AppDownloadRejected
  \/ AppDownload
  \/ AppReset
  \/ ChangeExperiment
  \/ EditForm

AppSpec == AppInit /\ [][AppNext]_vars

\* The pipeline on a wide set of inputs: the page with any of the pipeline
\* forms filled in, and the handlers that run the pipeline on it.
PipeInit ==
  /\ build \in Builds
  /\ form \in PipeForms(build)
  /\ Pristine

PipeNext == Handlers

Spec == PipeInit /\ [][PipeNext]_vars

\* The pure functions on arrays of the caller's choice.
FnInit ==
  /\ build \in Builds
  /\ form = Defaults(build, "bpsk")
  /\ Pristine

FnNext ==
  \/ CallAddNoise
  \/ CallDemodBPSK

FnSpec == FnInit /\ [][FnNext]_vars

-----------------------------------------------------------------------------
(* Properties                                                              *)

\* The stored generator result comes from one of the generators that take a
\* sample rate and a duration (part_000, part_001).
FromGenerator == build \in {"p0", "p1"} /\ ~SimEmpty(sim)

\* C1: for every generator called with a positive sample rate and a positive
\* duration, with N the length of the time vector t, the baseband, the
\* carrier and the modulated signal have exactly N elements, and the
\* demodulator returns exactly floor(N / samplesPerBit) decisions.
C1_ArrayLengths ==
  (~SimEmpty(sim) /\ sim.fs > 0 /\ (build = "app" \/ sim.dur > 0)) =>
    LET N == Len(sim.t)
    IN  /\ Len(sim.baseband) = N
        /\ Len(sim.carrier) = N
        /\ Len(sim.mod) = N
        /\ dem.has => Len(dem.decisions) = FloorDiv(N, sim.samplesPerBit)

\* The bit field holds no 0 and no 1.
NoBitsTyped == StripNonBits(form.bits) = <<>>

\* The last event ran a handler that parses the bit field.
ParsedBits ==
  \/ build \in {"p0", "p1"} /\ io.ev \in {"Run", "Download"}
  \/ build = "app" /\ io.ev = "Generate"

C3_RoundTrip ==
  /\ (build = "p0" /\ dem.has /\ sim.samplesPerBit >= 8
        /\ (sim.ex = "fsk" => sim.f0 # sim.f1))
       => dem.decisions = sim.bits
  /\ (build = "p0" /\ dem.has /\ sim.ex = "bpsk" /\ sim.bits = <<1, 0, 1, 1, 0>>
        /\ sim.amp = 1 /\ sim.fc = 10 /\ sim.fs = 10000 /\ sim.dur = 100)
       => (sim.N = 1000 /\ dem.decisions = <<1, 0, 1, 1, 0>>)

\* C4: every generator called with at least one bit computes
\* N = max(1, floor(fs * duration)) and
\* samplesPerBit = max(1, floor(N / bits.length)), so samplesPerBit >= 1.
C4_GridFormula ==
  FromGenerator =>
    LET N == Max(1, (sim.fs * sim.dur) \div 1000)
    IN  /\ Len(sim.bits) >= 1
        /\ sim.N = N
        /\ sim.samplesPerBit = Max(1, N \div Len(sim.bits))
        /\ sim.samplesPerBit >= 1

\* C5: for every bit sequence and every sample rate and duration, those
\* giving fewer samples than bits included, a Run comes to its end: every
\* loop of the pipeline has a finite bound and nothing is thrown.
C5_RunCompletes ==
  io.ev = "Run" =>
    /\ io.fault = "none"
    /\ dem.has => dem.numBits \in Nat /\ dem.numBits < Infinity

\* The stored result is that of a BPSK generator / of an FSK generator.
BpskSim == ~SimEmpty(sim) /\ sim.ex = "bpsk"
FskSim == ~SimEmpty(sim) /\ sim.ex = "fsk"

WindowHoldsSample(b, samplesPerBit, N) ==
  b * samplesPerBit < Min(N, (b + 1) * samplesPerBit)

CommonPrefix == 1..Min(Len(sim.bits), Len(dem.decisions))

C9_ClampedBeforeGenerator ==
  (io.ev \in {"Run", "Download"} /\ build \in {"p0", "p1"}) =>
    /\ io.gen # <<>>
    /\ io.gen[1] >= 100
    /\ io.gen[2] >= 1
    /\ io.alert = ""

\* C10 as stated: a Download with no generator result stored since the page
\* loaded or was last reset reports a precondition failure, makes no CSV,
\* leaves the stored state alone and does not crash.
C10_DownloadNeedsGenerate ==
  (io.ev = "Download" /\ fresh) =>
    /\ io.alert # ""
    /\ io.csv = NoCsv
    /\ io.fault = "none"
    /\ SimEmpty(sim)

\* C10: in js/app.js, as long as no Generate succeeded since the page loaded
\* or was last reset, sim, plots and results stay those of the reset page, and
\* a Download alerts 'Generate first' and makes no CSV; after a successful
\* Generate a Download exports the stored sim.  In part_000 a Download needs
\* no earlier run: it always exports a CSV generated from the fields.
C10_DownloadPrecondition ==
  /\ (build = "app" /\ fresh) =>
       sim = NoSim /\ dem = NoDem /\ plots = NoPlots /\ res = NoRes
  /\ (build = "app" /\ io.ev = "Download") =>
       /\ io.fault = "none"
       /\ IF fresh
          THEN io.alert = "Generate first" /\ io.csv = NoCsv
          ELSE io.alert = "" /\ io.csv = <<sim.t, sim.baseband, sim.carrier, sim.mod>>
  /\ (build = "p0" /\ io.ev = "Download") =>
       /\ io.alert = "" /\ io.fault = "none"
       /\ io.csv # NoCsv /\ Len(io.csv[1]) >= 1

C10_Witness ==
  /\ build = "app" /\ io.ev = "Download" /\ fresh
  /\ io.alert = "Generate first"
  /\ io.csv = NoCsv

-----------------------------------------------------------------------------
(* C11: addNoise                                                           *)

\* C11: addNoise called with an snrDB that is absent or not a finite number
\* returns an array of the same length whose samples equal the input's, and
\* in every case (noise added or not) the array passed in is left as it was.
C11_NoiseGuard ==
  call.fn = "addNoise" =>
    /\ call.after = call.signal
    /\ Len(call.out) = Len(call.signal)
    /\ ~IsFinite(call.snrDB) => call.out = call.signal

C11_Witness ==
  /\ call.fn = "addNoise"
  /\ call.snrDB = NaN
  /\ Len(call.signal) = 3 /\ call.signal[1] = Scale /\ call.signal[2] = -Scale
  /\ call.out = call.signal

-----------------------------------------------------------------------------
(* C12, C13: no sample of a generated array is left undefined                *)

\* The bit (0-based index) that owns sample i, clamped to the last bit.
OwningBit(i) == Min(Len(sim.bits) - 1, i \div sim.samplesPerBit)

\* C12: in every BPSK generator, on a grid of N >= 1 samples, baseband[i] is
\* +amp when the bit that owns sample i (bits[floor(i/samplesPerBit)], the
\* last bit past bits.length*samplesPerBit) is 1 and -amp when it is 0, for
\* every i in 0..N-1; no such sample is undefined.
C12_BasebandPerBit ==
  (BpskSim /\ sim.N >= 1 /\ sim.samplesPerBit >= 1) =>
    \A i \in 0..(sim.N - 1) :
      At(sim.baseband, i) =
        IF sim.bits[OwningBit(i) + 1] = 1 THEN sim.amp ELSE -sim.amp

\* C13: in every FSK generator, on a grid with samplesPerBit >= 1, every
\* trailing sample i with bits.length*samplesPerBit <= i < N holds, in the
\* carrier, the modulated signal and the baseband, the value of the sample at
\* index bits.length*samplesPerBit - 1, and no sample of these arrays in 0..N-1
\* is undefined.
C13_TrailingFill ==
  (FskSim /\ sim.samplesPerBit >= 1) =>
    LET last == Len(sim.bits) * sim.samplesPerBit - 1
    IN  /\ \A i \in (last + 1)..(sim.N - 1) :
             /\ At(sim.carrier, i) = At(sim.carrier, last)
             /\ At(sim.mod, i) = At(sim.mod, last)
             /\ At(sim.baseband, i) = At(sim.baseband, last)
        /\ \A i \in 0..(sim.N - 1) :
             /\ At(sim.carrier, i) # Undef
             /\ At(sim.mod, i) # Undef
             /\ At(sim.baseband, i) # Undef

-----------------------------------------------------------------------------
(* C14: the time base of the coherent BPSK demodulator                     *)

\* The instant the BPSK generator computed carrier sample k (1-based) at: t[i]
\* in part_000 and js/app.js, i/fs (the accumulated phase) in part_001.
CarrierInstant(k) == IF build = "p1" THEN <<k - 1, sim.fs>> ELSE sim.t[k]

\* Two instants <<num, den>> are the same number of seconds.
SameInstant(a, b) == a[1] * b[2] = b[1] * a[2]

\* C14: for every sample i, the instant demodBPSK evaluates its local
\* oscillator at equals the instant the BPSK generator computed carrier[i]
\* at, on every grid (sample rate, duration, bit count), also when
\* fs*duration is no whole number.  Both time vectors are i times a constant
\* step, so they agree everywhere exactly when they agree at i = 1.
C14_SameTimeBase ==
  (BpskSim /\ dem.has /\ sim.N >= 2 /\ sim.fs > 0) =>
    /\ Len(dem.t) = sim.N
    /\ \A k \in 1..sim.N :
         /\ dem.t[k][1] = (k - 1) * dem.t[2][1]
         /\ dem.t[k][2] = dem.t[2][2]
         /\ CarrierInstant(k)[1] = (k - 1) * CarrierInstant(2)[1]
         /\ CarrierInstant(k)[2] = CarrierInstant(2)[2]
    /\ SameInstant(dem.t[2], CarrierInstant(2))

-----------------------------------------------------------------------------
(* C15: the threshold of the BPSK decision                                 *)

\* C15 as stated: in every BPSK demodulator the decision of a bit is 1
\* exactly when the bit's statistic is strictly greater than 0; a statistic
\* of 0 decides 0.
C15_StrictThreshold ==
  call.fn = "demodBPSK" =>
    \A b \in 1..Len(call.out.decisions) :
      call.out.decisions[b] = 1 <=> Gt(call.out.stat[b], 0)

\* C15: demodBPSK returns floor(N/samplesPerBit) decisions, each 0 or 1.  In
\* part_000 and part_001 the decision of a bit is 1 exactly when the low-pass
\* value at the bit's midpoint is > 0, so a value of 0 decides 0; in js/app.js
\* it is 1 exactly when the average of the mixed samples of the bit is >= 0,
\* so an average of 0 decides 1.  A NaN statistic decides 0 everywhere.
C15_BpskThreshold ==
  call.fn = "demodBPSK" =>
    /\ Len(call.out.decisions) = Len(call.modSignal) \div call.samplesPerBit
    /\ Len(call.out.stat) = Len(call.out.decisions)
    /\ \A b \in 1..Len(call.out.decisions) :
         /\ call.out.decisions[b] \in {0, 1}
         /\ call.out.decisions[b] = 1 <=>
              IF build = "app" THEN Ge(call.out.stat[b], 0)
              ELSE Gt(call.out.stat[b], 0)

\* js/app.js on a signal whose second bit averages to 0 and whose first bit
\* does not.
C15_Witness ==
  /\ build = "app" /\ call.fn = "demodBPSK"
  /\ Len(call.out.decisions) = 2
  /\ call.out.stat[1] < 0 /\ call.out.decisions[1] = 0
  /\ call.out.stat[2] = 0 /\ call.out.decisions[2] = 1

-----------------------------------------------------------------------------
(* C16: the FSK correlation decision                                       *)

\* The correlation of the stored modulated signal with a tone of frequency f
\* over the samples start..end-1 (0-based), the tone taken at the instants u.
Correlation(f, u, start, end) ==
  SumRange([k \in 1..Len(sim.mod) |-> Mul(sim.mod[k], CosAt(f, u[k]))],
           start + 1, end)

\* C16: in every FSK demodulator that returns, for each bit interval
\* [b*samplesPerBit, min(N, (b+1)*samplesPerBit)), corr0 and corr1 are the
\* sums over exactly that interval's samples of mod[i] times the f0 / f1
\* reference cosine at the time t[i] of the whole signal (t[i] is i times a
\* constant step, never restarted at a bit); the decision is 1 exactly when
\* corr1 > corr0, so a tie decides 0.
C16_FskCorrelation ==
  (FskSim /\ dem.has) =>
    LET N == Len(sim.mod)
    IN  /\ Len(dem.stat) = Len(dem.decisions)
        /\ \A k \in 1..Len(dem.t) :
             Len(dem.t) >= 2 =>
               /\ dem.t[k][1] = (k - 1) * dem.t[2][1]
               /\ dem.t[k][2] = dem.t[2][2]
        /\ \A b \in 1..Len(dem.decisions) :
             LET start == (b - 1) * sim.samplesPerBit
                 end == Min(N, b * sim.samplesPerBit)
             IN  /\ dem.stat[b][1] = Correlation(sim.f0, dem.t, start, end)
                 /\ dem.stat[b][2] = Correlation(sim.f1, dem.t, start, end)
                 /\ dem.decisions[b] = 1 <=> Gt(dem.stat[b][2], dem.stat[b][1])

\* Both tones at the same frequency: every bit is a tie and decides 0, also
\* the bits sent as 1.
C16_Witness ==
  /\ FskSim /\ dem.has
  /\ sim.f0 = sim.f1 /\ sim.bits = <<1, 0>>
  /\ Len(dem.decisions) = 2
  /\ dem.stat[1][1] = dem.stat[1][2] /\ dem.stat[1][1] > 0
  /\ dem.decisions = <<0, 0>>

-----------------------------------------------------------------------------
(* C17, C18, C19: the stored simulation of js/app.js and what is shown       *)

\* What btnRun's demodulator call returns on the stored simulation.
DemodOfSim ==
  IF sim.ex = "bpsk"
  THEN demodBPSK_app(sim.mod, sim.fc, sim.fs, sim.samplesPerBit)
  ELSE demodFSK_app(sim.mod, sim.f0, sim.f1, sim.fs, sim.samplesPerBit)

\* C17: in js/app.js, whatever the order of Generate, Run, Reset, experiment
\* changes and field edits, the demodulated bits and the BER shown are both
\* '-' or are those Run computes from the simulation now stored in sim; right
\* after a successful Generate and right after a Reset both are '-'.
C17_ResultsFromCurrentSim ==
  build = "app" =>
    /\ \/ res.demod = Dash /\ res.ber = NoBer
       \/ /\ ~SimEmpty(sim)
          /\ res.demod = JoinBits(DemodOfSim.decisions)
          /\ res.ber = BerText(JoinBits(sim.bits), JoinBits(DemodOfSim.decisions))
    /\ ((io.ev = "Generate" /\ io.alert = "") \/ io.ev = "Reset") =>
         res.demod = Dash /\ res.ber = NoBer

\* Results of a noisy simulation are shown with a bit in error, while the
\* form already holds another experiment.
C17_Witness ==
  /\ build = "app" /\ ~SimEmpty(sim)
  /\ res.demod # Dash /\ res.demod # res.input
  /\ ~res.ber.dash /\ res.ber.e4 > 0
  /\ form.ex # sim.ex

\* C18: in js/app.js, sim changes only in Generate and Reset, and a Run on a
\* stored simulation calls the demodulator sim.ex names, on sim.mod, with
\* sim.fc (or sim.f0, sim.f1), sim.fs and sim.samplesPerBit as they were
\* stored, whatever the selector and the fields hold by then; Run leaves sim
\* as it was.
C18_RunUsesStoredSim ==
  [][build = "app" =>
       /\ sim' # sim => io'.ev \in {"Generate", "Reset"}
       /\ (io'.ev = "Run" /\ ~SimEmpty(sim)) =>
            /\ sim' = sim
            /\ dem'.has
            /\ dem'.decisions = DemodOfSim.decisions
            /\ dem'.numBits = DemodOfSim.numBits
            /\ dem'.t = DemodOfSim.t
            /\ plots'.demod = Trace(DemodOfSim.recon)
            /\ res'.demod = JoinBits(DemodOfSim.decisions)
            /\ res'.extra = IF sim.ex = "bpsk" THEN <<sim.fc, sim.fs>>
                            ELSE <<sim.f0, sim.f1, sim.fs>>]_vars

\* A Run after the experiment selector was changed: the form shows the other
\* experiment, the result is that of the BPSK demodulator on sim's carrier.
C18_Witness ==
  /\ build = "app" /\ io.ev = "Run" /\ dem.has
  /\ sim.ex = "bpsk" /\ form.ex = "fsk"
  /\ dem.decisions = DemodOfSim.decisions
  /\ res.demod = JoinBits(dem.decisions)
  /\ res.extra = <<sim.fc, sim.fs>>

\* C19: in js/app.js, a Generate on a bit field with no 0/1 character alerts
\* 'Enter binary bits (0/1)' and changes nothing else: sim, the demodulator
\* result, the plots, the result texts and the form are those before the
\* click, so that the next Run or Download finds the previous simulation.
C19_RejectedGenerateFrame ==
  [][(build = "app" /\ io'.ev = "Generate" /\ NoBitsTyped) =>
       /\ io'.alert = "Enter binary bits (0/1)" /\ io'.fault = "none"
       /\ UNCHANGED <<sim, dem, plots, res, form, fresh>>]_vars

\* A rejected Generate with a simulation stored and its results shown.
C19_Witness ==
  /\ build = "app" /\ io.ev = "Generate"
  /\ io.alert = "Enter binary bits (0/1)"
  /\ NoBitsTyped
  /\ ~SimEmpty(sim) /\ sim.bits # <<>>
  /\ plots.demod.shown /\ res.demod = JoinBits(dem.decisions)

====
